---------------------------- MODULE Spec2Model ----------------------------
(***************************************************************************)
(* embedded-ffi: OsString / OsStr over a Vec<u8> / [u8], the lossy UTF-8   *)
(* chunk decoder behind to_string_lossy and Debug, and the ownership       *)
(* conversions among OsString, Box<OsStr>, Rc<OsStr>, Arc<OsStr> and       *)
(* Cow<OsStr>.                                                             *)
(*                                                                         *)
(* Bytes are the integers 0..255.  Text (str / String) is the sequence of  *)
(* its UTF-8 bytes.  Formatter output is the sequence of the code points   *)
(* written.                                                                *)
(***************************************************************************)
EXTENDS Integers, Sequences, FiniteSets, TLC

VARIABLES
    bytes,      \* the byte slice an operation is called on (never changes)
    op,         \* which operation runs on it
    pc,         \* the operation's position: "start", "chunks", "done"
    source,     \* Utf8LossyChunksIter.source: the bytes not yet scanned
    chunks,     \* the chunks the iterator has yielded so far, in order
    out,        \* what debug_fmt_bytestring has written to the Formatter
    res,        \* the String to_string_lossy is building
    ret,        \* the value the operation returned
    view,       \* the bytes of the borrowed &OsStr every buffer is made from
    heap,       \* the allocator's blocks: state, contents, capacity, counts
    handles,    \* the owning values a program holds, one per slot
    allocs,     \* allocation events per block
    frees,      \* deallocation events per block
    nextBuf,    \* the next logical buffer's number
    string,     \* an OsString under push / reserve / clear: its Vec's bytes and capacity
    call,       \* the last call on it: name, arguments, the OsString before
    origin,     \* how it was constructed, and whether only push was called since
    cmp         \* a comparison of two OsStrings: operator, operands, call stack, result

lossyVars == <<bytes, op, pc, source, chunks, out, res, ret>>
ownVars == <<view, heap, handles, allocs, frees, nextBuf>>
bufVars == <<string, call, origin>>
vars == <<bytes, op, pc, source, chunks, out, res, ret,
          view, heap, handles, allocs, frees, nextBuf,
          string, call, origin, cmp>>

(***************************************************************************)
(* Bounds.                                                                 *)
(***************************************************************************)
\* Longest byte slice an operation is called on.
MaxLen == 4

\* The byte values inputs are drawn from: NUL, '"', 'f', 'o'; the continuation
\* bytes 0x80 and 0xA0, which are also the bytes that cannot start a
\* character; and the leads 0xC2 (2 bytes), 0xE0 (second byte A0..BF),
\* 0xED (second byte 80..9F), 0xF4 (second byte 80..8F).
ByteAlphabet == {0, 34, 102, 111, 128, 160, 194, 224, 237, 244}

RECURSIVE SeqsUpTo(_)
SeqsUpTo(n) ==
    IF n = 0 THEN {<<>>}
    ELSE LET S == SeqsUpTo(n - 1)
         IN  S \cup {Append(s, b) : s \in {t \in S : Len(t) = n - 1}, b \in ByteAlphabet}

Inputs == SeqsUpTo(MaxLen)

\* Pushed bytes the values of a program hold at once.
MaxPush == 2

\* Values a program holds at once.
MaxHandles == 2

\* Logical buffers made in one run.
MaxBufs == 2

\* Longest OsString push builds.
MaxStrLen == 4

\* Largest argument of with_capacity, reserve and reserve_exact.
MaxAdditional == 3

\* Longest operand of a comparison.
MaxCmpLen == 2

\* Frames the call stack holds before it overflows.
MaxStack == 3

(***************************************************************************)
(* lib.rs: the width table.                                                *)
(***************************************************************************)
UTF8_CHAR_WIDTH ==
  << 1,1,1,1,1,1,1,1,1,1,1,1,1,1,1,1,
     1,1,1,1,1,1,1,1,1,1,1,1,1,1,1,1,
     1,1,1,1,1,1,1,1,1,1,1,1,1,1,1,1,
     1,1,1,1,1,1,1,1,1,1,1,1,1,1,1,1,
     1,1,1,1,1,1,1,1,1,1,1,1,1,1,1,1,
     1,1,1,1,1,1,1,1,1,1,1,1,1,1,1,1,
     1,1,1,1,1,1,1,1,1,1,1,1,1,1,1,1,
     1,1,1,1,1,1,1,1,1,1,1,1,1,1,1,1,
     0,0,0,0,0,0,0,0,0,0,0,0,0,0,0,0,
     0,0,0,0,0,0,0,0,0,0,0,0,0,0,0,0,
     0,0,0,0,0,0,0,0,0,0,0,0,0,0,0,0,
     0,0,0,0,0,0,0,0,0,0,0,0,0,0,0,0,
     0,0,2,2,2,2,2,2,2,2,2,2,2,2,2,2,
     2,2,2,2,2,2,2,2,2,2,2,2,2,2,2,2,
     3,3,3,3,3,3,3,3,3,3,3,3,3,3,3,3,
     4,4,4,4,4,0,0,0,0,0,0,0,0,0,0,0 >>

\* The table with the 0xE0 row typed as the row above it.
utf8_char_width_RowE0As2(b) ==
    IF b \in 224..239 THEN 2 ELSE UTF8_CHAR_WIDTH[b + 1]

\* The table with the continuation bytes 0x80..0xBF at 1.
utf8_char_width_ContAs1(b) ==
    IF b \in 128..191 THEN 1 ELSE UTF8_CHAR_WIDTH[b + 1]

\* The table with 0xED among the 2-byte leads.
utf8_char_width_EDAs2(b) ==
    IF b = 237 THEN 2 ELSE UTF8_CHAR_WIDTH[b + 1]

\* The table with the 0xC0 and 0xD0 rows left at 0.
utf8_char_width_RowC0As0(b) ==
    IF b \in 192..223 THEN 0 ELSE UTF8_CHAR_WIDTH[b + 1]

\* The table whose last row holds four 4s instead of five.
utf8_char_width_F4As0(b) ==
    IF b = 244 THEN 0 ELSE UTF8_CHAR_WIDTH[b + 1]

\* fn utf8_char_width(b: u8) -> usize
utf8_char_width(b) == UTF8_CHAR_WIDTH[b + 1]

(***************************************************************************)
(* The chunk iterator (Utf8Lossy::chunks, Utf8LossyChunksIter::next).      *)
(***************************************************************************)
\* A byte past the end reads as 0, which is no continuation byte.
safe_get(xs, i) == IF i < Len(xs) THEN xs[i + 1] ELSE 0

\* byte & 192 == TAG_CONT_U8
IsContinuation(b) == (b \div 64) = 2

\* The second byte a 3-byte lead admits: no overlong form, no surrogate.
SecondOf3(byte, b) ==
    \/ byte = 224 /\ b \in 160..191
    \/ byte \in 225..236 /\ b \in 128..191
    \/ byte = 237 /\ b \in 128..159
    \/ byte \in 238..239 /\ b \in 128..191

\* The second byte a 4-byte lead admits: no overlong form, at most U+10FFFF.
SecondOf4(byte, b) ==
    \/ byte = 240 /\ b \in 144..191
    \/ byte \in 241..243 /\ b \in 128..191
    \/ byte = 244 /\ b \in 128..143

Drop(s, n) == SubSeq(s, n + 1, Len(s))

\* The chunk ending in an error: the valid text before offset i_, the
\* malformed bytes i_..i, and the iterator's source after it.
ErrorChunk(src, i_, i) ==
    [valid |-> SubSeq(src, 1, i_), broken |-> SubSeq(src, i_ + 1, i), rest |-> Drop(src, i)]

\* The scan of one call of next(), with the cursor at offset i of src: it
\* runs over well-formed characters and stops at the first malformed run, or
\* at the end of the input.
RECURSIVE ScanFrom(_, _)
ScanFrom(src, i) ==
    IF i >= Len(src)
    THEN [valid |-> src, broken |-> <<>>, rest |-> <<>>]
    ELSE LET byte == src[i + 1]
             w == utf8_char_width(byte)
         IN  IF byte < 128 THEN ScanFrom(src, i + 1)
             ELSE CASE w = 2 ->
                         IF ~IsContinuation(safe_get(src, i + 1))
                         THEN ErrorChunk(src, i, i + 1)
                         ELSE ScanFrom(src, i + 2)
                    [] w = 3 ->
                         IF ~SecondOf3(byte, safe_get(src, i + 1))
                         THEN ErrorChunk(src, i, i + 1)
                         ELSE IF ~IsContinuation(safe_get(src, i + 2))
                         THEN ErrorChunk(src, i, i + 2)
                         ELSE ScanFrom(src, i + 3)
                    [] w = 4 ->
                         IF ~SecondOf4(byte, safe_get(src, i + 1))
                         THEN ErrorChunk(src, i, i + 1)
                         ELSE IF ~IsContinuation(safe_get(src, i + 2))
                         THEN ErrorChunk(src, i, i + 2)
                         ELSE IF ~IsContinuation(safe_get(src, i + 3))
                         THEN ErrorChunk(src, i, i + 3)
                         ELSE ScanFrom(src, i + 4)
                    [] OTHER -> ErrorChunk(src, i, i + 1)

\* next() with the malformed slice starting one byte late.
NextChunk_BrokenOffByOne(src) ==
    LET c == ScanFrom(src, 0)
    IN  [c EXCEPT !.broken = Drop(c.broken, 1)]

\* next() leaving the malformed bytes it yields in the source.
NextChunk_KeepsBroken(src) ==
    LET c == ScanFrom(src, 0)
    IN  [c EXCEPT !.rest = c.broken \o c.rest]

\* Utf8LossyChunksIter::next on a non-empty source.
NextChunk(src) == ScanFrom(src, 0)

Chunk(c) == [valid |-> c.valid, broken |-> c.broken]

(***************************************************************************)
(* lib.rs: sys_common::bytestring::debug_fmt_bytestring.                   *)
(***************************************************************************)
Min(a, b) == IF a < b THEN a ELSE b

\* The payload bits of the continuation byte at offset i.
ContBits(s, i) == safe_get(s, i) % 64

\* str::chars: the code points of a text, decoded from its UTF-8 bytes.
RECURSIVE Chars(_)
Chars(s) ==
    IF s = <<>> THEN <<>>
    ELSE LET b == s[1]
             n == IF b < 128 THEN 1 ELSE IF b < 224 THEN 2 ELSE IF b < 240 THEN 3 ELSE 4
             cp == CASE n = 1 -> b
                      [] n = 2 -> (b % 32) * 64 + ContBits(s, 1)
                      [] n = 3 -> (b % 16) * 4096 + ContBits(s, 1) * 64 + ContBits(s, 2)
                      [] OTHER -> (b % 8) * 262144 + ContBits(s, 1) * 4096
                                    + ContBits(s, 2) * 64 + ContBits(s, 3)
         IN  <<cp>> \o Chars(Drop(s, Min(n, Len(s))))

\* The ASCII code of a hexadecimal digit, upper case ({:X}).
HexUpper(d) == IF d < 10 THEN 48 + d ELSE 55 + d

\* The ASCII code of a hexadecimal digit, lower case ({:x}).
HexLower(d) == IF d < 10 THEN 48 + d ELSE 87 + d

\* The hexadecimal digits of n, lower case, without leading zeros.
RECURSIVE HexDigitsLower(_)
HexDigitsLower(n) ==
    IF n < 16 THEN <<HexLower(n)>>
    ELSE Append(HexDigitsLower(n \div 16), HexLower(n % 16))

\* char::escape_unicode: \u{NNNN}
escape_unicode(c) == <<92, 117, 123>> \o HexDigitsLower(c) \o <<125>>

\* core::unicode::printable::is_printable, on ASCII and on the code points
\* the alphabet's well-formed sequences encode: U+0800, U+D000 and U+D020
\* are letters; U+0080 is a control, U+00A0 a space separator, U+0820 a
\* combining mark, U+100000.. private use.
is_printable(c) == c \in 32..126 \/ c \in {2048, 2080, 53248, 53280}

\* char::is_grapheme_extended, on the same code points: U+0820 is a
\* nonspacing mark.
is_grapheme_extended(c) == c = 2080

\* char::escape_debug
escape_debug(c) ==
    CASE c = 9  -> <<92, 116>>
      [] c = 13 -> <<92, 114>>
      [] c = 10 -> <<92, 110>>
      [] c \in {92, 39, 34} -> <<92, c>>
      [] OTHER -> IF is_grapheme_extended(c) THEN escape_unicode(c)
                  ELSE IF is_printable(c) THEN <<c>>
                  ELSE escape_unicode(c)

RECURSIVE FlatMapEscape(_)
FlatMapEscape(cs) ==
    IF cs = <<>> THEN <<>> ELSE escape_debug(Head(cs)) \o FlatMapEscape(Tail(cs))

\* fn write_str_escaped(f, s): every char of s through escape_debug.
write_str_escaped(s) == FlatMapEscape(Chars(s))

\* The malformed bytes written as one escape of the first byte only.
RECURSIVE WriteBroken_OnePerRun(_)
WriteBroken_OnePerRun(broken) ==
    IF broken = <<>> THEN <<>>
    ELSE <<92, 120, HexUpper(broken[1] \div 16), HexUpper(broken[1] % 16)>>

\* for b in broken { write!(f, "\\x{:02X}", b)?; }
RECURSIVE WriteBroken(_)
WriteBroken(broken) ==
    IF broken = <<>> THEN <<>>
    ELSE <<92, 120, HexUpper(broken[1] \div 16), HexUpper(broken[1] % 16)>>
         \o WriteBroken(Tail(broken))

(***************************************************************************)
(* Slice::to_string_lossy (String::from_utf8_lossy over the chunks).       *)
(***************************************************************************)
\* U+FFFD REPLACEMENT CHARACTER in UTF-8.
REPLACEMENT == <<239, 191, 189>>

\* What one chunk adds to the String.
LossyPush(c) == c.valid \o (IF c.broken # <<>> THEN REPLACEMENT ELSE <<>>)

(***************************************************************************)
(* inner_alloc.rs: Buf::into_string over String::from_utf8.                *)
(***************************************************************************)
\* core's own width classification of a first byte (core::str::validations).
CoreWidth(b) ==
    IF b < 128 THEN 1
    ELSE IF b \in 194..223 THEN 2
    ELSE IF b \in 224..239 THEN 3
    ELSE IF b \in 240..244 THEN 4
    ELSE 0

\* core::str::run_utf8_validation from offset index: TRUE when v is UTF-8.
\* next!() past the end is an error.
RECURSIVE run_utf8_validation(_, _)
run_utf8_validation(v, index) ==
    IF index >= Len(v) THEN TRUE
    ELSE LET first == v[index + 1]
             w == CoreWidth(first)
             has(k) == index + k < Len(v)
         IN  IF first < 128 THEN run_utf8_validation(v, index + 1)
             ELSE CASE w = 2 ->
                         /\ has(1) /\ IsContinuation(v[index + 2])
                         /\ run_utf8_validation(v, index + 2)
                    [] w = 3 ->
                         /\ has(1) /\ SecondOf3(first, v[index + 2])
                         /\ has(2) /\ IsContinuation(v[index + 3])
                         /\ run_utf8_validation(v, index + 3)
                    [] w = 4 ->
                         /\ has(1) /\ SecondOf4(first, v[index + 2])
                         /\ has(2) /\ IsContinuation(v[index + 3])
                         /\ has(3) /\ IsContinuation(v[index + 4])
                         /\ run_utf8_validation(v, index + 4)
                    [] OTHER -> FALSE

\* String::from_utf8(vec): Ok(String) or Err(FromUtf8Error) holding vec.
from_utf8(vec) ==
    IF run_utf8_validation(vec, 0)
    THEN [tag |-> "Ok", val |-> vec]
    ELSE [tag |-> "Err", val |-> vec]

\* into_string giving back only the valid prefix on failure.
Buf_into_string_ErrKeepsValidPrefix(inner) ==
    LET r == from_utf8(inner)
    IN  IF r.tag = "Ok" THEN r
        ELSE [tag |-> "Err", val |-> NextChunk(inner).valid]

\* Buf::into_string: String::from_utf8(self.inner).map_err(|p| Buf { inner: p.into_bytes() })
Buf_into_string(inner) ==
    LET r == from_utf8(inner)
    IN  IF r.tag = "Ok" THEN r ELSE [tag |-> "Err", val |-> r.val]

(***************************************************************************)
(* The heap and the values that own its blocks.                            *)
(***************************************************************************)
Slots == 1..MaxHandles
Bufs == 1..MaxBufs

\* The allocator's blocks.  A logical buffer lives in at most two over its
\* life: the block of its Vec / Box, and the block of its Rc / Arc.
Cells == 1..(2 * MaxBufs)
ExclusiveCell(b) == 2 * b - 1
SharedCell(b) == 2 * b

\* The byte a view is made of, and the one-byte slice push appends.
ViewAlphabet == {1}
PushByte == <<3>>

\* The borrowed views buffers are made from: the empty one, which needs no
\* block, and a non-empty one.
Views == {<<>>} \cup {<<b>> : b \in ViewAlphabet}

\* A block the allocator has not handed out.
UnusedCell ==
    [state |-> "unused", kind |-> "none", data |-> <<>>, cap |-> 0, strong |-> 0,
     cloned |-> FALSE, buf |-> 0]

\* A block given back to the allocator: what it holds is nobody's to read.
FreedCell(b) ==
    [state |-> "freed", kind |-> "none", data |-> <<>>, cap |-> 0, strong |-> 0,
     cloned |-> FALSE, buf |-> b]

\* A slot holding no value.
NoHandle == [kind |-> "None", a |-> 0, buf |-> 0, log |-> <<>>, from |-> 0, copies |-> 0]

\* No operation on a byte slice is running.
IdleLossy ==
    /\ bytes = <<>> /\ op = "none" /\ pc = "idle" /\ source = <<>>
    /\ chunks = <<>> /\ out = <<>> /\ res = <<>>
    /\ ret = [tag |-> "None", val |-> <<>>]

\* Nothing is allocated and nothing is held.
IdleOwn ==
    /\ heap = [c \in Cells |-> UnusedCell]
    /\ handles = [k \in Slots |-> NoHandle]
    /\ allocs = [c \in Cells |-> 0]
    /\ frees = [c \in Cells |-> 0]
    /\ nextBuf = 1

\* No OsString is being pushed onto or reserved.
IdleBuf ==
    /\ string = [inner |-> <<>>, cap |-> 0]
    /\ call = [name |-> "none", n |-> 0, s |-> <<>>, was |-> [inner |-> <<>>, cap |-> 0]]
    /\ origin = [name |-> "none", n |-> 0, pushedOnly |-> FALSE]

\* No comparison is running.
IdleCmp == cmp = [op |-> "none", a |-> <<>>, b |-> <<>>, stack |-> <<>>, pc |-> "idle", ret |-> "none"]

(***************************************************************************)
(* The operations on a byte slice, as a state machine.                     *)
(***************************************************************************)
Ops == {"debug", "lossy", "into_string", "to_str"}

None == [tag |-> "None", val |-> <<>>]

\* Slice::to_str: str::from_utf8(&self.inner).ok()
Slice_to_str(inner) ==
    IF from_utf8(inner).tag = "Ok" THEN [tag |-> "Some", val |-> inner] ELSE None

\* OsStr::to_str: self.inner.to_str()
OsStr_to_str(inner) == Slice_to_str(inner)

InitLossy ==
    /\ bytes \in Inputs
    /\ op \in Ops
    /\ pc = "start"
    /\ source = bytes
    /\ chunks = <<>>
    /\ out = <<>>
    /\ res = <<>>
    /\ ret = None
    /\ view = <<>>
    /\ IdleOwn
    /\ IdleBuf
    /\ IdleCmp

\* debug_fmt_bytestring: f.write_str("\"")?; and Utf8Lossy::from_bytes(slice).chunks()
DebugFmtOpen ==
    /\ op = "debug" /\ pc = "start"
    /\ out' = <<34>>
    /\ pc' = "chunks"
    /\ UNCHANGED <<bytes, op, source, chunks, res, ret>>
    /\ UNCHANGED <<ownVars, bufVars, cmp>>

\* One turn of the for loop: next() yields a chunk, its valid text is
\* written escaped and each of its malformed bytes as \xNN.
DebugFmtChunk ==
    /\ op = "debug" /\ pc = "chunks" /\ source # <<>>
    /\ LET c == NextChunk(source)
       IN  /\ chunks' = Append(chunks, Chunk(c))
           /\ source' = c.rest
           /\ out' = out \o write_str_escaped(c.valid) \o WriteBroken(c.broken)
    /\ UNCHANGED <<bytes, op, pc, res, ret>>
    /\ UNCHANGED <<ownVars, bufVars, cmp>>

\* next() returns None on an empty source; f.write_str("\"")
DebugFmtClose ==
    /\ op = "debug" /\ pc = "chunks" /\ source = <<>>
    /\ out' = Append(out, 34)
    /\ pc' = "done"
    /\ ret' = [tag |-> "Ok", val |-> <<>>]
    /\ UNCHANGED <<bytes, op, source, chunks, res>>
    /\ UNCHANGED <<ownVars, bufVars, cmp>>

\* to_string_lossy up to its first chunk: Borrowed("") on no chunk,
\* Borrowed(valid) when the first chunk is the whole input.
ToStringLossyFirst ==
    /\ op = "lossy" /\ pc = "start"
    /\ IF source = <<>>
       THEN /\ ret' = [tag |-> "Borrowed", val |-> <<>>]
            /\ pc' = "done"
            /\ UNCHANGED <<source, chunks, res>>
       ELSE LET c == NextChunk(source)
            IN  /\ chunks' = Append(chunks, Chunk(c))
                /\ source' = c.rest
                /\ IF Len(c.valid) = Len(bytes)
                   THEN /\ ret' = [tag |-> "Borrowed", val |-> c.valid]
                        /\ pc' = "done"
                        /\ UNCHANGED res
                   ELSE /\ res' = LossyPush(c)
                        /\ pc' = "chunks"
                        /\ UNCHANGED ret
    /\ UNCHANGED <<bytes, op, out>>
    /\ UNCHANGED <<ownVars, bufVars, cmp>>

\* for chunk in iter { res.push_str(valid); if !broken.is_empty() { res.push_str(REPLACEMENT) } }
ToStringLossyChunk ==
    /\ op = "lossy" /\ pc = "chunks" /\ source # <<>>
    /\ LET c == NextChunk(source)
       IN  /\ chunks' = Append(chunks, Chunk(c))
           /\ source' = c.rest
           /\ res' = res \o LossyPush(c)
    /\ UNCHANGED <<bytes, op, pc, out, ret>>
    /\ UNCHANGED <<ownVars, bufVars, cmp>>

\* Cow::Owned(res)
ToStringLossyDone ==
    /\ op = "lossy" /\ pc = "chunks" /\ source = <<>>
    /\ ret' = [tag |-> "Owned", val |-> res]
    /\ pc' = "done"
    /\ UNCHANGED <<bytes, op, source, chunks, out, res>>
    /\ UNCHANGED <<ownVars, bufVars, cmp>>

\* OsString::into_string: self.inner.into_string().map_err(|buf| OsString { inner: buf })
IntoString ==
    /\ op = "into_string" /\ pc = "start"
    /\ ret' = Buf_into_string(bytes)
    /\ pc' = "done"
    /\ UNCHANGED <<bytes, op, source, chunks, out, res>>
    /\ UNCHANGED <<ownVars, bufVars, cmp>>

\* OsStr::to_str
ToStr ==
    /\ op = "to_str" /\ pc = "start"
    /\ ret' = OsStr_to_str(bytes)
    /\ pc' = "done"
    /\ UNCHANGED <<bytes, op, source, chunks, out, res>>
    /\ UNCHANGED <<ownVars, bufVars, cmp>>

NextLossy ==
    \/ DebugFmtOpen
    \/ DebugFmtChunk
    \/ DebugFmtClose
    \/ ToStringLossyFirst
    \/ ToStringLossyChunk
    \/ ToStringLossyDone
    \/ IntoString
    \/ ToStr

SpecLossy == InitLossy /\ [][NextLossy]_vars

(***************************************************************************)
(* Well-formed UTF-8, stated from the Unicode Standard's table of          *)
(* well-formed byte sequences (Table 3-7), and the maximal subparts of an  *)
(* ill-formed subsequence.  Used by the properties only.                   *)
(***************************************************************************)
\* The length of the sequence a first byte begins; 0 when it begins none.
WFLen(b1) ==
    IF b1 \in 0..127 THEN 1
    ELSE IF b1 \in 194..223 THEN 2
    ELSE IF b1 \in 224..239 THEN 3
    ELSE IF b1 \in 240..244 THEN 4
    ELSE 0

\* The second bytes the table allows after first byte b1.
WFSecond(b1) ==
    CASE b1 = 224 -> 160..191
      [] b1 = 237 -> 128..159
      [] b1 = 240 -> 144..191
      [] b1 = 244 -> 128..143
      [] OTHER -> 128..191

\* The first k bytes of s begin a well-formed sequence.
IsWFPrefix(s, k) ==
    /\ k >= 1 /\ k <= Len(s) /\ k <= WFLen(s[1])
    /\ k >= 2 => s[2] \in WFSecond(s[1])
    /\ k >= 3 => s[3] \in 128..191
    /\ k >= 4 => s[4] \in 128..191

\* s starts with a complete well-formed sequence.
WFCharAt(s) == s # <<>> /\ IsWFPrefix(s, WFLen(s[1]))

RECURSIVE WellFormed(_)
WellFormed(s) ==
    \/ s = <<>>
    \/ WFCharAt(s) /\ WellFormed(Drop(s, WFLen(s[1])))

\* The length of the maximal subpart at the start of s, where no
\* well-formed sequence starts: the longest prefix that begins one, else 1.
MaximalSubpart(s) ==
    LET ks == {k \in 1..Len(s) : IsWFPrefix(s, k)}
    IN  IF ks = {} THEN 1 ELSE CHOOSE k \in ks : \A j \in ks : j <= k

\* The maximal subparts of s in order, each with its offset in the input.
RECURSIVE IllFormedRuns(_, _)
IllFormedRuns(s, at) ==
    IF s = <<>> THEN <<>>
    ELSE IF WFCharAt(s)
         THEN IllFormedRuns(Drop(s, WFLen(s[1])), at + WFLen(s[1]))
         ELSE LET m == MaximalSubpart(s)
              IN  <<[at |-> at, run |-> SubSeq(s, 1, m)]>>
                  \o IllFormedRuns(Drop(s, m), at + m)

\* s with each maximal subpart replaced by one U+FFFD.
RECURSIVE ReplaceSubparts(_)
ReplaceSubparts(s) ==
    IF s = <<>> THEN <<>>
    ELSE IF WFCharAt(s)
         THEN SubSeq(s, 1, WFLen(s[1])) \o ReplaceSubparts(Drop(s, WFLen(s[1])))
         ELSE <<239, 191, 189>> \o ReplaceSubparts(Drop(s, MaximalSubpart(s)))

\* The scalar value a well-formed sequence at the start of s encodes.
ScalarAt(s) ==
    LET n == WFLen(s[1])
    IN  CASE n = 1 -> s[1]
          [] n = 2 -> (s[1] - 192) * 64 + (s[2] - 128)
          [] n = 3 -> (s[1] - 224) * 4096 + (s[2] - 128) * 64 + (s[3] - 128)
          [] OTHER -> (s[1] - 240) * 262144 + (s[2] - 128) * 4096
                        + (s[3] - 128) * 64 + (s[4] - 128)

UpperHexDigits == <<48, 49, 50, 51, 52, 53, 54, 55, 56, 57, 65, 66, 67, 68, 69, 70>>

\* The rendering the Debug contract asks for, byte position by byte
\* position: a character's debug escape where a well-formed sequence
\* starts, backslash x and two upper-case digits for any other byte.
RECURSIVE Rendering(_)
Rendering(s) ==
    IF s = <<>> THEN <<>>
    ELSE IF WFCharAt(s)
         THEN escape_debug(ScalarAt(s)) \o Rendering(Drop(s, WFLen(s[1])))
         ELSE <<92, 120, UpperHexDigits[(s[1] \div 16) + 1], UpperHexDigits[(s[1] % 16) + 1]>>
              \o Rendering(Tail(s))

\* Every chunk's valid run followed by its malformed run, in order.
RECURSIVE ConcatChunks(_)
ConcatChunks(cs) ==
    IF cs = <<>> THEN <<>>
    ELSE Head(cs).valid \o Head(cs).broken \o ConcatChunks(Tail(cs))

\* The malformed runs of a chunk stream, each with its offset in the input.
RECURSIVE RunsOf(_, _)
RunsOf(cs, at) ==
    IF cs = <<>> THEN <<>>
    ELSE LET c == Head(cs)
             after == at + Len(c.valid) + Len(c.broken)
         IN  IF c.broken = <<>> THEN RunsOf(Tail(cs), after)
             ELSE <<[at |-> at + Len(c.valid), run |-> c.broken]>> \o RunsOf(Tail(cs), after)

Chunked == op \in {"debug", "lossy"}

(***************************************************************************)
(* Properties of the decoder, the renderer and into_string (SpecLossy).    *)
(***************************************************************************)
\* C1: at every point of the iteration the chunks yielded so far, each
\* valid run followed by its malformed run, followed by the bytes not yet
\* scanned, are the input; so the finished chunk stream concatenates to the
\* input byte for byte.
C1_ChunksReconstructInput ==
    Chunked => ConcatChunks(chunks) \o source = bytes

C1_Witness ==
    /\ Chunked /\ pc = "done" /\ Len(chunks) >= 2
    /\ \E i \in 1..Len(chunks) : chunks[i].valid # <<>> /\ Len(chunks[i].broken) = 2

\* C2: the malformed runs of the finished chunk stream are exactly the
\* maximal subparts of the input's ill-formed subsequences, at the same
\* offsets; to_string_lossy returns the input with each of them replaced by
\* one U+FFFD; and 66 6F 80 6F gives "fo" + [80], then "o", and "fo�o".
C2_RunsAreMaximalSubparts ==
    (Chunked /\ pc = "done") =>
        /\ RunsOf(chunks, 0) = IllFormedRuns(bytes, 0)
        /\ op = "lossy" => ret.val = ReplaceSubparts(bytes)
        /\ bytes = <<102, 111, 128, 111>> =>
              /\ chunks = << [valid |-> <<102, 111>>, broken |-> <<128>>],
                             [valid |-> <<111>>, broken |-> <<>>] >>
              /\ op = "lossy" => ret = [tag |-> "Owned", val |-> <<102, 111, 239, 191, 189, 111>>]

C2_Witness ==
    op = "lossy" /\ pc = "done" /\ bytes = <<102, 111, 128, 111>>

\* C3: on well-formed UTF-8, to_string_lossy returns text with exactly the
\* input's bytes and no chunk carries a malformed run.
C3_WellFormedRoundTrip ==
    (op = "lossy" /\ pc = "done" /\ WellFormed(bytes)) =>
        /\ ret.val = bytes
        /\ \A i \in 1..Len(chunks) : chunks[i].broken = <<>>

C3_Witness ==
    /\ op = "lossy" /\ pc = "done" /\ WellFormed(bytes)
    /\ Len(bytes) = 4 /\ bytes[1] = 102 /\ bytes[2] = 237

\* C4: when the input ends with a 3-byte lead and one continuation byte
\* that lead admits as its second byte, the last chunk's malformed run is
\* exactly those two bytes, and it is the only run that touches them.
EndsInTruncated3 ==
    /\ Len(bytes) >= 2
    /\ bytes[Len(bytes) - 1] \in 224..239
    /\ bytes[Len(bytes)] \in WFSecond(bytes[Len(bytes) - 1])

C5_DebugRendering ==
    (op = "debug" /\ pc = "done") =>
        /\ out = <<34>> \o Rendering(bytes) \o <<34>>
        /\ \A i \in 1..Len(out) : out[i] # 65533
        /\ bytes = <<102, 111, 128, 111>> =>
              out = <<34, 102, 111, 92, 120, 56, 48, 111, 34>>

C5_Witness ==
    /\ op = "debug" /\ pc = "done"
    /\ \E i \in 1..Len(chunks) : Len(chunks[i].broken) = 2
    /\ \E i \in 1..Len(bytes) : bytes[i] = 34

\* C6: into_string returns Ok exactly when the whole buffer is well-formed
\* UTF-8, and the value carried, the String on Ok and the OsString on Err,
\* has exactly the buffer's bytes.
C6_IntoStringOkOrUnchanged ==
    (op = "into_string" /\ pc = "done") =>
        /\ ret.tag \in {"Ok", "Err"}
        /\ ret.tag = "Ok" <=> WellFormed(bytes)
        /\ ret.val = bytes

C6_Witness ==
    /\ op = "into_string" /\ pc = "done" /\ ret.tag = "Err"
    /\ Len(bytes) = 3 /\ bytes[1] = 102 /\ bytes[2] = 128

(***************************************************************************)
(* os_str.rs: the ownership conversions, as a state machine over the heap. *)
(*                                                                         *)
(* An OsString is a Vec<u8>: a block of cap bytes holding len of them, or  *)
(* no block at all while cap = 0.  A Box<OsStr> is a block of exactly len  *)
(* bytes, or none when empty.  An Rc<OsStr> / Arc<OsStr> is a block        *)
(* holding the counts and then the bytes.  Every buffer is made from the   *)
(* borrowed view; log is what was pushed onto it since.                    *)
(***************************************************************************)
Max(a, b) == IF a > b THEN a ELSE b

FreeSlots == {k \in Slots : handles[k].kind = "None"}

RECURSIVE PushedUpTo(_)
PushedUpTo(k) == IF k = 0 THEN 0 ELSE Len(handles[k].log) + PushedUpTo(k - 1)

\* The pushed bytes the values hold between them.
Pushed == PushedUpTo(MaxHandles)
NewSlot == CHOOSE k \in FreeSlots : \A j \in FreeSlots : k <= j

\* A Cow::Borrowed borrows the OsString in slot k: until it goes the
\* borrow checker lets nobody move, mutate or drop that OsString.
IsBorrowed(k) == \E j \in Slots : handles[j].kind = "CowBorrowed" /\ handles[j].from = k

\* The bytes of the block a value owns.
BufData(h) == IF h.a = 0 THEN <<>> ELSE heap[h.a].data

\* The bytes a value derefs to.
Content(h) ==
    IF h.kind = "CowBorrowed"
    THEN IF h.from = 0 THEN view ELSE BufData(handles[h.from])
    ELSE BufData(h)

\* Slice::to_owned: Buf { inner: self.inner.to_vec() }
Slice_to_owned(inner) == [i \in 1..Len(inner) |-> inner[i]]

\* OsStr::to_os_string: OsString { inner: self.inner.to_owned() }
to_os_string(inner) == Slice_to_owned(inner)

\* to_owned returning OsString::new(), the bytes never pushed.
to_owned_Empty(inner) == <<>>

\* impl ToOwned for OsStr: fn to_owned(&self) -> OsString { self.to_os_string() }
to_owned(inner) == to_os_string(inner)

\* Slice::into_box: the bytes copied into a Box<[u8]>.
Slice_into_box(inner) == [i \in 1..Len(inner) |-> inner[i]]

\* Box::from(&OsStr) boxing all but the last byte.
BoxFromRef_DropsLast(inner) == SubSeq(inner, 1, Len(inner) - 1)

\* impl From<&OsStr> for Box<OsStr>: Box::from_raw(Box::into_raw(s.inner.into_box()) as *mut OsStr)
BoxFromRef(inner) == Slice_into_box(inner)

\* The cast with the temporary Arc dropped at the end of the function
\* (Arc::as_ptr in place of Arc::into_raw).
CastCounted_DropsTemp(cell) == FreedCell(cell.buf)

\* Arc::from_raw(Arc::into_raw(arc) as *const OsStr), and the same for Rc:
\* into_raw gives up the Arc without decrementing, from_raw takes the
\* pointer without incrementing; the block and its counts are as they were.
CastCounted(cell) == cell

\* Vec's amortized growth: the capacity after reserve(additional).
Vec_reserve(cap, len, additional) ==
    IF cap - len >= additional THEN cap ELSE Max(cap * 2, len + additional)

\* A value in a slot: the block it owns (a), the logical buffer that block
\* belongs to, what was pushed since the view (log), the slot it borrows
\* from, and the copies Cow::to_mut made for it.
Handle(kind, a, buf, log) ==
    [kind |-> kind, a |-> a, buf |-> buf, log |-> log, from |-> 0, copies |-> 0]

VecCell(kind, data, cap, buf) ==
    [state |-> "live", kind |-> kind, data |-> data, cap |-> cap, strong |-> 0,
     cloned |-> FALSE, buf |-> buf]

\* A new Rc / Arc block: strong count 1, never cloned, the bytes copied in.
CountedCell(kind, data, buf) ==
    [state |-> "live", kind |-> kind, data |-> data, cap |-> Len(data), strong |-> 1,
     cloned |-> FALSE, buf |-> buf]

InitOwn ==
    /\ view \in Views
    /\ IdleOwn
    /\ IdleBuf
    /\ IdleCmp
    /\ IdleLossy

\* A new logical buffer, exclusively owned (Vec or Box), holding data: the
\* block is allocated unless data is empty.
NewExclusive(hk, ck, data, log, k) ==
    /\ nextBuf \in Bufs
    /\ LET c == IF data = <<>> THEN 0 ELSE ExclusiveCell(nextBuf)
       IN  /\ handles' = [handles EXCEPT ![k] = Handle(hk, c, nextBuf, log)]
           /\ heap' = IF c = 0 THEN heap
                      ELSE [heap EXCEPT ![c] = VecCell(ck, data, Len(data), nextBuf)]
           /\ allocs' = IF c = 0 THEN allocs ELSE [allocs EXCEPT ![c] = @ + 1]
    /\ nextBuf' = nextBuf + 1
    /\ UNCHANGED <<view, frees>>

\* OsStr::to_os_string / to_owned on the view.
ToOsString ==
    /\ FreeSlots # {}
    /\ NewExclusive("OsString", "vec", to_owned(view), <<>>, NewSlot)
    /\ UNCHANGED <<lossyVars, bufVars, cmp>>

\* impl From<&OsStr> for Box<OsStr>
BoxFromOsStr ==
    /\ FreeSlots # {}
    /\ NewExclusive("Box", "box", BoxFromRef(view), <<>>, NewSlot)
    /\ UNCHANGED <<lossyVars, bufVars, cmp>>

\* A new logical buffer in a counted block (Slice::into_rc / into_arc).
NewShared(hk, ck, data) ==
    /\ FreeSlots # {} /\ nextBuf \in Bufs
    /\ handles' = [handles EXCEPT ![NewSlot] = Handle(hk, SharedCell(nextBuf), nextBuf, <<>>)]
    /\ heap' = [heap EXCEPT ![SharedCell(nextBuf)] = CastCounted(CountedCell(ck, data, nextBuf))]
    /\ allocs' = [allocs EXCEPT ![SharedCell(nextBuf)] = @ + 1]
    /\ nextBuf' = nextBuf + 1
    /\ UNCHANGED <<view, frees>>

\* impl From<&OsStr> for Rc<OsStr>
RcFromOsStr == NewShared("Rc", "rc", view) /\ UNCHANGED <<lossyVars, bufVars, cmp>>

\* impl From<&OsStr> for Arc<OsStr>
ArcFromOsStr == NewShared("Arc", "arc", view) /\ UNCHANGED <<lossyVars, bufVars, cmp>>

\* OsString::into_boxed_os_str, impl From<OsString> for Box<OsStr>:
\* Buf::into_box shrinks the block to the length (freeing it when the
\* length is 0) and the Box takes it over.
IntoBoxedOsStr(k) ==
    /\ handles[k].kind = "OsString" /\ ~IsBorrowed(k)
    /\ LET h == handles[k]
       IN  IF h.a = 0
           THEN /\ handles' = [handles EXCEPT ![k].kind = "Box"]
                /\ UNCHANGED <<heap, frees>>
           ELSE IF heap[h.a].data = <<>>
           THEN /\ handles' = [handles EXCEPT ![k].kind = "Box", ![k].a = 0]
                /\ heap' = [heap EXCEPT ![h.a] = FreedCell(h.buf)]
                /\ frees' = [frees EXCEPT ![h.a] = @ + 1]
           ELSE /\ handles' = [handles EXCEPT ![k].kind = "Box"]
                /\ heap' = [heap EXCEPT ![h.a].kind = "box",
                                        ![h.a].cap = Len(heap[h.a].data)]
                /\ UNCHANGED frees
    /\ UNCHANGED <<view, allocs, nextBuf>>
    /\ UNCHANGED <<lossyVars, bufVars, cmp>>

\* OsStr::into_os_string, impl From<Box<OsStr>> for OsString: Buf::from_box
\* turns the Box's block into the Vec's.
IntoOsString(k) ==
    /\ handles[k].kind = "Box"
    /\ handles' = [handles EXCEPT ![k].kind = "OsString"]
    /\ heap' = IF handles[k].a = 0 THEN heap
               ELSE [heap EXCEPT ![handles[k].a].kind = "vec"]
    /\ UNCHANGED <<view, allocs, frees, nextBuf>>
    /\ UNCHANGED <<lossyVars, bufVars, cmp>>

\* impl From<OsString> for Rc<OsStr> / Arc<OsStr>: s.inner.into_rc() /
\* into_arc() yields an Rc / Arc, whose block holds the counts before the
\* bytes: it is a new block, the bytes are copied into it and the Vec's
\* block is freed.  The cast then leaves that block as it is.
CountedFromOsString(k, hk, ck) ==
    /\ handles[k].kind = "OsString" /\ ~IsBorrowed(k)
    /\ LET h == handles[k]
           c == SharedCell(h.buf)
           made == [heap EXCEPT ![c] = CastCounted(CountedCell(ck, BufData(h), h.buf))]
       IN  /\ handles' = [handles EXCEPT ![k].kind = hk, ![k].a = c]
           /\ allocs' = [allocs EXCEPT ![c] = @ + 1]
           /\ IF h.a = 0
              THEN heap' = made /\ UNCHANGED frees
              ELSE /\ heap' = [made EXCEPT ![h.a] = FreedCell(h.buf)]
                   /\ frees' = [frees EXCEPT ![h.a] = @ + 1]
    /\ UNCHANGED <<view, nextBuf>>

RcFromOsString(k) == CountedFromOsString(k, "Rc", "rc") /\ UNCHANGED <<lossyVars, bufVars, cmp>>

ArcFromOsString(k) == CountedFromOsString(k, "Arc", "arc") /\ UNCHANGED <<lossyVars, bufVars, cmp>>

\* impl From<OsString> for Cow<OsStr>: Cow::Owned(s)
CowFromOsString(k) ==
    /\ handles[k].kind = "OsString" /\ ~IsBorrowed(k)
    /\ handles' = [handles EXCEPT ![k].kind = "CowOwned"]
    /\ UNCHANGED <<view, heap, allocs, frees, nextBuf>>
    /\ UNCHANGED <<lossyVars, bufVars, cmp>>

\* impl From<&OsStr> for Cow<OsStr>: Cow::Borrowed(s)
CowFromOsStr ==
    /\ FreeSlots # {}
    /\ handles' = [handles EXCEPT ![NewSlot] = Handle("CowBorrowed", 0, 0, <<>>)]
    /\ UNCHANGED <<view, heap, allocs, frees, nextBuf>>
    /\ UNCHANGED <<lossyVars, bufVars, cmp>>

\* impl From<&OsString> for Cow<OsStr>: Cow::Borrowed(s.as_os_str())
CowFromRefOsString(k) ==
    /\ handles[k].kind = "OsString"
    /\ FreeSlots # {}
    /\ handles' = [handles EXCEPT ![NewSlot] =
                      [Handle("CowBorrowed", 0, 0, handles[k].log) EXCEPT !.from = k]]
    /\ UNCHANGED <<view, heap, allocs, frees, nextBuf>>
    /\ UNCHANGED <<lossyVars, bufVars, cmp>>

\* impl From<Cow<OsStr>> for OsString: s.into_owned(), which moves the
\* OsString out of Owned and calls to_owned on Borrowed.
OsStringFromCow(k) ==
    /\ \/ /\ handles[k].kind = "CowOwned"
          /\ handles' = [handles EXCEPT ![k].kind = "OsString", ![k].copies = 0]
          /\ UNCHANGED <<view, heap, allocs, frees, nextBuf>>
       \/ /\ handles[k].kind = "CowBorrowed"
          /\ NewExclusive("OsString", "vec", to_owned(Content(handles[k])),
                          handles[k].log, k)
    /\ UNCHANGED <<lossyVars, bufVars, cmp>>

\* push on the Vec a value owns: Buf::push_slice, extend_from_slice.  The
\* block grows in place (a grow, not an allocation) or is allocated when
\* the Vec had none.
PushOnto(k, h, hp) ==
    /\ Pushed < MaxPush
    /\ IF h.a = 0
       THEN /\ handles' = [handles EXCEPT ![k] =
                               [h EXCEPT !.a = ExclusiveCell(h.buf), !.log = @ \o PushByte]]
            /\ heap' = [hp EXCEPT ![ExclusiveCell(h.buf)] =
                           VecCell("vec", PushByte, Vec_reserve(0, 0, 1), h.buf)]
            /\ allocs' = [allocs EXCEPT ![ExclusiveCell(h.buf)] = @ + 1]
       ELSE /\ handles' = [handles EXCEPT ![k] = [h EXCEPT !.log = @ \o PushByte]]
            /\ heap' = [hp EXCEPT ![h.a].data = @ \o PushByte,
                                  ![h.a].cap = Vec_reserve(hp[h.a].cap, Len(hp[h.a].data), 1)]
            /\ UNCHANGED allocs

\* OsString::push
Push(k) ==
    /\ handles[k].kind = "OsString" /\ ~IsBorrowed(k)
    /\ PushOnto(k, handles[k], heap)
    /\ UNCHANGED <<view, frees, nextBuf>>
    /\ UNCHANGED <<lossyVars, bufVars, cmp>>

\* cow.to_mut().push(..): to_mut on Borrowed stores Owned(to_owned(view))
\* first; on Owned it hands out the OsString that is there.
CowPush(k) ==
    /\ \/ /\ handles[k].kind = "CowOwned"
          /\ PushOnto(k, handles[k], heap)
          /\ UNCHANGED <<view, frees, nextBuf>>
       \/ /\ handles[k].kind = "CowBorrowed"
          /\ Pushed < MaxPush
          /\ nextBuf \in Bufs
          /\ LET h == handles[k]
                 data == to_owned(Content(h))
                 grown == data \o PushByte
                 cap == Vec_reserve(Len(data), Len(data), 1)
             IN  /\ handles' = [handles EXCEPT ![k] =
                        [Handle("CowOwned", ExclusiveCell(nextBuf), nextBuf, h.log \o PushByte)
                            EXCEPT !.copies = h.copies + 1]]
                 /\ heap' = [heap EXCEPT ![ExclusiveCell(nextBuf)] =
                                VecCell("vec", grown, cap, nextBuf)]
                 /\ allocs' = [allocs EXCEPT ![ExclusiveCell(nextBuf)] = @ + 1]
          /\ nextBuf' = nextBuf + 1
          /\ UNCHANGED <<view, frees>>
    /\ UNCHANGED <<lossyVars, bufVars, cmp>>

\* Drop of an OsString, a Box<OsStr> or a Cow<OsStr>: the block, if there
\* is one, goes back to the allocator.
DropValue(k) ==
    /\ handles[k].kind \in {"OsString", "Box", "CowOwned", "CowBorrowed"}
    /\ ~IsBorrowed(k)
    /\ handles' = [handles EXCEPT ![k] = NoHandle]
    /\ IF handles[k].kind = "CowBorrowed" \/ handles[k].a = 0
       THEN UNCHANGED <<heap, frees>>
       ELSE /\ heap' = [heap EXCEPT ![handles[k].a] = FreedCell(handles[k].buf)]
            /\ frees' = [frees EXCEPT ![handles[k].a] = @ + 1]
    /\ UNCHANGED <<view, allocs, nextBuf>>
    /\ UNCHANGED <<lossyVars, bufVars, cmp>>

\* Rc::clone / Arc::clone: the strong count goes up by one (atomically for
\* Arc) and there is one more holder.
CloneCounted(k) ==
    /\ handles[k].kind \in {"Rc", "Arc"}
    /\ FreeSlots # {}
    /\ handles' = [handles EXCEPT ![NewSlot] = handles[k]]
    /\ heap' = [heap EXCEPT ![handles[k].a].strong = @ + 1,
                            ![handles[k].a].cloned = TRUE]
    /\ UNCHANGED <<view, allocs, frees, nextBuf>>
    /\ UNCHANGED <<lossyVars, bufVars, cmp>>

\* Drop of an Rc<OsStr>: one thread, so the decrement and the free that
\* follows a count of zero are one step.
RcDrop(k) ==
    /\ handles[k].kind = "Rc"
    /\ handles' = [handles EXCEPT ![k] = NoHandle]
    /\ LET c == handles[k].a
       IN  IF heap[c].strong = 1
           THEN /\ heap' = [heap EXCEPT ![c] = FreedCell(heap[c].buf)]
                /\ frees' = [frees EXCEPT ![c] = @ + 1]
           ELSE /\ heap' = [heap EXCEPT ![c].strong = @ - 1]
                /\ UNCHANGED frees
    /\ UNCHANGED <<view, allocs, nextBuf>>
    /\ UNCHANGED <<lossyVars, bufVars, cmp>>

\* Drop of an Arc<OsStr>, first half: fetch_sub(1) on the strong count.  The
\* holder that saw 1 goes on to free the block; any other is done.
ArcDrop(k) ==
    /\ handles[k].kind = "Arc"
    /\ heap' = [heap EXCEPT ![handles[k].a].strong = @ - 1]
    /\ handles' = [handles EXCEPT ![k] =
                      IF heap[handles[k].a].strong = 1
                      THEN [handles[k] EXCEPT !.kind = "ArcFreeing"]
                      ELSE NoHandle]
    /\ UNCHANGED <<view, allocs, frees, nextBuf>>
    /\ UNCHANGED <<lossyVars, bufVars, cmp>>

\* Drop of an Arc<OsStr>, second half (drop_slow): the block is freed.
ArcDropSlow(k) ==
    /\ handles[k].kind = "ArcFreeing"
    /\ handles' = [handles EXCEPT ![k] = NoHandle]
    /\ heap' = [heap EXCEPT ![handles[k].a] = FreedCell(heap[handles[k].a].buf)]
    /\ frees' = [frees EXCEPT ![handles[k].a] = @ + 1]
    /\ UNCHANGED <<view, allocs, nextBuf>>
    /\ UNCHANGED <<lossyVars, bufVars, cmp>>

NextOwn ==
    \/ ToOsString
    \/ BoxFromOsStr
    \/ RcFromOsStr
    \/ ArcFromOsStr
    \/ CowFromOsStr
    \/ \E k \in Slots :
          \/ IntoBoxedOsStr(k)
          \/ IntoOsString(k)
          \/ RcFromOsString(k)
          \/ ArcFromOsString(k)
          \/ CowFromOsString(k)
          \/ CowFromRefOsString(k)
          \/ OsStringFromCow(k)
          \/ Push(k)
          \/ CowPush(k)
          \/ DropValue(k)
          \/ CloneCounted(k)
          \/ RcDrop(k)
          \/ ArcDrop(k)
          \/ ArcDropSlow(k)

SpecOwn == InitOwn /\ [][NextOwn]_vars

(***************************************************************************)
(* The ownership claims.                                                   *)
(***************************************************************************)
\* Allocation and deallocation events a logical buffer has seen, over the
\* blocks it has lived in.
AllocEvents(b) == allocs[ExclusiveCell(b)] + allocs[SharedCell(b)]
FreeEvents(b) == frees[ExclusiveCell(b)] + frees[SharedCell(b)]

Live(k) == handles[k].kind \notin {"None", "ArcFreeing"}

\* C7: converting an OsString into Box<OsStr>, Rc<OsStr> or Arc<OsStr>, and
\* a Box<OsStr> back into an OsString, neither copies nor allocates: a
\* logical buffer sees at most one allocation event and at most one
\* deallocation event however many conversions it passes through, and a
\* buffer nobody holds any more has seen exactly one of each if it ever had
\* a block.
C7_OneAllocationPerBuffer ==
    \A b \in Bufs :
        /\ AllocEvents(b) <= 1
        /\ FreeEvents(b) <= 1
        /\ (\A k \in Slots : handles[k].buf # b) => FreeEvents(b) = AllocEvents(b)

\* C8: whatever ownership conversions a value has been through, it derefs
\* to the bytes of the original view (followed by what was pushed onto it
\* since), and the view itself never changes.
C8_ConversionsKeepContent ==
    /\ [](\A k \in Slots : Live(k) => Content(handles[k]) = view \o handles[k].log)
    /\ [][view' = view]_vars

\* An Arc<OsStr> made of an OsString (whose block was given back) and a
\* Box<OsStr>, both made of a non-empty view.
C8_Witness ==
    /\ view # <<>>
    /\ \E j, k \in Slots :
          /\ handles[j].kind = "Arc" /\ handles[k].kind = "Box"
          /\ frees[ExclusiveCell(handles[j].buf)] = 1
          /\ Content(handles[j]) = view /\ Content(handles[k]) = view

Holders(c) == {k \in Slots : handles[k].kind \in {"Rc", "Arc"} /\ handles[k].a = c}
Freeing(c) == {k \in Slots : handles[k].kind = "ArcFreeing" /\ handles[k].a = c}

\* C9: for every Rc / Arc block, in every interleaving of clones and drops:
\* while the block is live its strong count is the number of its holders;
\* the count is zero exactly while the one holder that brought it there is
\* about to free the block; a block that was freed was freed once, has no
\* holder left and nobody about to free it again; a block that is not
\* freed has somebody to free it.
C9_CountedBlockFreedOnce ==
    \A b \in Bufs :
        LET c == SharedCell(b)
        IN  /\ frees[c] <= 1
            /\ allocs[c] <= 1
            /\ heap[c].state = "unused" =>
                  /\ Holders(c) = {} /\ Freeing(c) = {}
                  /\ allocs[c] = 0 /\ frees[c] = 0
            /\ heap[c].state = "live" =>
                  /\ heap[c].strong = Cardinality(Holders(c))
                  /\ Cardinality(Freeing(c)) = (IF heap[c].strong = 0 THEN 1 ELSE 0)
                  /\ allocs[c] = 1 /\ frees[c] = 0
            /\ heap[c].state = "freed" =>
                  /\ Holders(c) = {} /\ Freeing(c) = {}
                  /\ allocs[c] = 1 /\ frees[c] = 1

\* An Arc<OsStr> was cloned, every holder has decremented the count, and
\* the one that brought it to zero is about to free the block.
C9_Witness ==
    \E k \in Slots :
        /\ handles[k].kind = "ArcFreeing"
        /\ heap[handles[k].a].state = "live" /\ heap[handles[k].a].cloned
        /\ heap[handles[k].a].strong = 0 /\ Holders(handles[k].a) = {}

IsCow(k) == handles[k].kind \in {"CowBorrowed", "CowOwned"}

\* C10: a Cow<OsStr> derefs to the view followed by what was pushed through
\* it and has copied at most once; the step that mutates a Borrowed leaves
\* it Owned, holding what it borrowed followed by the pushed bytes, after
\* one copy; a mutation of an Owned stays in the block it has, without a
\* copy; an Owned does not become Borrowed; and the view never changes.
C10_CopyOnFirstWrite ==
    /\ [](\A k \in Slots : IsCow(k) =>
             /\ Content(handles[k]) = view \o handles[k].log
             /\ handles[k].copies <= 1
             /\ handles[k].kind = "CowBorrowed" => handles[k].copies = 0)
    /\ [][/\ view' = view
          /\ \A k \in Slots :
                /\ (handles[k].kind = "CowBorrowed" /\ handles'[k] # handles[k]
                      /\ IsCow(k)') =>
                       /\ handles'[k].kind = "CowOwned"
                       /\ handles'[k].copies = 1
                       /\ Content(handles[k])' = Content(handles[k]) \o PushByte
                /\ handles[k].kind = "CowOwned" =>
                       /\ handles'[k].kind # "CowBorrowed"
                       /\ handles'[k].kind = "CowOwned" =>
                             /\ handles'[k].copies = handles[k].copies
                             /\ handles'[k].buf = handles[k].buf
                             /\ handles[k].a # 0 => handles'[k].a = handles[k].a
                             /\ AllocEvents(handles[k].buf)' =
                                   (IF handles[k].a = 0 /\ handles'[k].a # 0 THEN 1 ELSE 0)
                                   + AllocEvents(handles[k].buf)]_vars

\* A Cow that was Borrowed over a non-empty view, mutated twice: one copy.
C10_Witness ==
    \E k \in Slots :
        /\ handles[k].kind = "CowOwned" /\ handles[k].copies = 1
        /\ view # <<>>
        /\ handles[k].log = PushByte \o PushByte
        /\ Content(handles[k]) = view \o PushByte \o PushByte


(***************************************************************************)
(* os_str.rs / inner_alloc.rs: one OsString under push, reserve,           *)
(* reserve_exact, clear and shrink_to_fit.  A Buf is its Vec<u8>: the      *)
(* bytes (their number is the length) and the capacity.                    *)
(***************************************************************************)
\* The strings pushed: "a" and "abc".
PushArgs == {<<97>>, <<97, 98, 99>>}

\* Buf::from_string: Buf { inner: s.into_bytes() }
Buf_from_string(s) == [inner |-> s, cap |-> Len(s)]

\* OsString::new: OsString { inner: Buf::from_string(String::new()) }
OsString_new == Buf_from_string(<<>>)

\* with_capacity ignoring its argument (Vec::new()).
Buf_with_capacity_Ignored(capacity) == [inner |-> <<>>, cap |-> 0]

\* Buf::with_capacity: Buf { inner: Vec::with_capacity(capacity) }
Buf_with_capacity(capacity) == [inner |-> <<>>, cap |-> capacity]

\* clear that replaces the Vec by a new one (self.inner = Vec::new()).
Buf_clear_NewVec(b) == [inner |-> <<>>, cap |-> 0]

\* Buf::clear: self.inner.clear()
Buf_clear(b) == [b EXCEPT !.inner = <<>>]

\* Buf::capacity: self.inner.capacity()
Buf_capacity(b) == b.cap

\* reserve that sets the capacity to length + additional, whatever it was.
Buf_reserve_SetsCapacity(b, additional) == [b EXCEPT !.cap = Len(b.inner) + additional]

\* Buf::reserve: self.inner.reserve(additional)
Buf_reserve(b, additional) ==
    [b EXCEPT !.cap = Vec_reserve(b.cap, Len(b.inner), additional)]

\* Vec::reserve_exact: the capacity after reserve_exact(additional).
Vec_reserve_exact(cap, len, additional) ==
    IF cap - len >= additional THEN cap ELSE len + additional

\* reserve_exact counting from the start of the buffer, not from its length.
Buf_reserve_exact_FromStart(b, additional) ==
    [b EXCEPT !.cap = Max(b.cap, additional)]

\* Buf::reserve_exact: self.inner.reserve_exact(additional)
Buf_reserve_exact(b, additional) ==
    [b EXCEPT !.cap = Vec_reserve_exact(b.cap, Len(b.inner), additional)]

\* push_slice that, when the Vec has to grow, keeps only the new bytes.
Buf_push_slice_LosesOnGrow(b, s) ==
    IF b.cap - Len(b.inner) >= Len(s)
    THEN [b EXCEPT !.inner = @ \o s]
    ELSE [inner |-> s, cap |-> Vec_reserve(b.cap, Len(b.inner), Len(s))]

\* Buf::push_slice: self.inner.extend_from_slice(&s.inner), which reserves
\* s.len() and then appends.
Buf_push_slice(b, s) ==
    [inner |-> b.inner \o s, cap |-> Vec_reserve(b.cap, Len(b.inner), Len(s))]

\* Buf::shrink_to_fit: the capacity comes down to the length.
Buf_shrink_to_fit(b) == [b EXCEPT !.cap = Len(b.inner)]

Called(name, n, s) == [name |-> name, n |-> n, s |-> s, was |-> string]

InitBuf ==
    /\ \E n \in 0..MaxAdditional :
          \/ /\ string = OsString_new /\ n = 0
             /\ origin = [name |-> "new", n |-> 0, pushedOnly |-> TRUE]
          \/ /\ string = Buf_with_capacity(n)
             /\ origin = [name |-> "with_capacity", n |-> n, pushedOnly |-> TRUE]
    /\ call = [name |-> origin.name, n |-> origin.n, s |-> <<>>,
               was |-> [inner |-> <<>>, cap |-> 0]]
    /\ IdleCmp
    /\ view = <<>>
    /\ IdleOwn
    /\ IdleLossy

\* OsString::push: self.inner.push_slice(&s.as_ref().inner)
StringPush ==
    /\ \E s \in PushArgs :
          /\ Len(string.inner) + Len(s) <= MaxStrLen
          /\ string' = Buf_push_slice(string, s)
          /\ call' = Called("push", 0, s)
    /\ UNCHANGED origin
    /\ UNCHANGED <<lossyVars, ownVars, cmp>>

\* OsString::reserve: self.inner.reserve(additional)
StringReserve ==
    /\ \E n \in 0..MaxAdditional :
          /\ string' = Buf_reserve(string, n)
          /\ call' = Called("reserve", n, <<>>)
    /\ origin' = [origin EXCEPT !.pushedOnly = FALSE]
    /\ UNCHANGED <<lossyVars, ownVars, cmp>>

\* OsString::reserve_exact: self.inner.reserve_exact(additional)
StringReserveExact ==
    /\ \E n \in 0..MaxAdditional :
          /\ string' = Buf_reserve_exact(string, n)
          /\ call' = Called("reserve_exact", n, <<>>)
    /\ origin' = [origin EXCEPT !.pushedOnly = FALSE]
    /\ UNCHANGED <<lossyVars, ownVars, cmp>>

\* OsString::clear: self.inner.clear()
StringClear ==
    /\ string' = Buf_clear(string)
    /\ call' = Called("clear", 0, <<>>)
    /\ origin' = [origin EXCEPT !.pushedOnly = FALSE]
    /\ UNCHANGED <<lossyVars, ownVars, cmp>>

\* OsString::shrink_to_fit: self.inner.shrink_to_fit()
StringShrinkToFit ==
    /\ string' = Buf_shrink_to_fit(string)
    /\ call' = Called("shrink_to_fit", 0, <<>>)
    /\ origin' = [origin EXCEPT !.pushedOnly = FALSE]
    /\ UNCHANGED <<lossyVars, ownVars, cmp>>

NextBuf ==
    \/ StringPush
    \/ StringReserve
    \/ StringReserveExact
    \/ StringClear
    \/ StringShrinkToFit

SpecBuf == InitBuf /\ [][NextBuf]_vars

\* C11: over push, reserve and reserve_exact the capacity of an OsString
\* never goes down from one call to the next, and in every state the
\* capacity is at least the length.
C11_CapacityMonotonic ==
    /\ [](Buf_capacity(string) >= Len(string.inner))
    /\ [][call'.name \in {"push", "reserve", "reserve_exact"} =>
             Buf_capacity(string)' >= Buf_capacity(string)]_vars

\* reserve on a non-empty OsString with spare room made the capacity grow.
C11_Witness ==
    /\ call.name = "reserve"
    /\ call.was.inner # <<>> /\ call.was.cap > Len(call.was.inner)
    /\ string.cap > call.was.cap


\* C12: after reserve(n) or reserve_exact(n) on an OsString of length L the
\* capacity is at least L + n and the content (so the length) is what it
\* was; reserve_exact leaves the OsString as it was when the capacity
\* already sufficed; and a push that fits in the capacity does not change
\* the capacity, so the next n bytes pushed do not.
C12_ReserveGuarantee ==
    /\ [](call.name \in {"reserve", "reserve_exact"} =>
             /\ Buf_capacity(string) >= Len(call.was.inner) + call.n
             /\ string.inner = call.was.inner
             /\ (call.name = "reserve_exact"
                   /\ call.was.cap - Len(call.was.inner) >= call.n) => string = call.was)
    /\ [][(call'.name = "push" /\ Len(string'.inner) <= Buf_capacity(string)) =>
             Buf_capacity(string)' = Buf_capacity(string)]_vars

\* reserve_exact on a non-empty OsString without the room asked for: the
\* capacity became exactly length + n.
C12_Witness ==
    /\ call.name = "reserve_exact" /\ call.n > 0
    /\ call.was.inner # <<>>
    /\ string.cap > call.was.cap
    /\ string.cap = Len(string.inner) + call.n

\* C13: with_capacity(n) yields an empty OsString of capacity exactly n
\* (0 for n = 0), and while only push has been called and at most n bytes
\* were pushed in total the capacity is still n.
C13_WithCapacity ==
    /\ call.name = "with_capacity" =>
          /\ string.inner = <<>>
          /\ Buf_capacity(string) = call.n
    /\ (origin.name = "with_capacity" /\ origin.pushedOnly
          /\ Len(string.inner) <= origin.n) => Buf_capacity(string) = origin.n

\* with_capacity(3) filled to the brim by pushes.
C13_Witness ==
    /\ origin.name = "with_capacity" /\ origin.n = 3 /\ origin.pushedOnly
    /\ call.name = "push" /\ Len(string.inner) = 3 /\ string.cap = 3

\* C14: after clear the OsString is empty (length 0, equal to "") and its
\* capacity is what it was before the call: clear gives no memory back.
C14_ClearKeepsCapacity ==
    call.name = "clear" =>
        /\ string.inner = <<>>
        /\ Len(string.inner) = 0
        /\ Buf_capacity(string) = call.was.cap

\* clear on a non-empty OsString.
C14_Witness ==
    /\ call.name = "clear" /\ call.was.inner # <<>>
    /\ string.cap >= Len(call.was.inner) /\ string.cap > 0

\* C15: after push(s) the content is the previous content followed by the
\* bytes of s and the length is the previous length plus the length of s,
\* whether or not the push reallocated (only the capacity tells); s is one
\* of the strings passed, as passed; and a new OsString has length 0 and
\* capacity 0.
C15_PushAppends ==
    /\ call.name = "push" =>
          /\ string.inner = call.was.inner \o call.s
          /\ Len(string.inner) = Len(call.was.inner) + Len(call.s)
          /\ call.s \in PushArgs
    /\ call.name = "new" =>
          /\ Len(string.inner) = 0
          /\ Buf_capacity(string) = 0

\* A push onto a non-empty OsString that had to reallocate.
C15_Witness ==
    /\ call.name = "push" /\ call.was.inner # <<>>
    /\ string.cap > call.was.cap
    /\ string.inner = call.was.inner \o call.s


(***************************************************************************)
(* os_str.rs: ==, <, <=, >, >=, partial_cmp and cmp on two OsStrings and   *)
(* on two OsStrs, as a state machine over the call stack.                  *)
(***************************************************************************)
CmpAlphabet == {1, 2}

RECURSIVE CmpSeqsUpTo(_)
CmpSeqsUpTo(n) ==
    IF n = 0 THEN {<<>>}
    ELSE LET S == CmpSeqsUpTo(n - 1)
         IN  S \cup {Append(t, c) : t \in {u \in S : Len(u) = n - 1}, c \in CmpAlphabet}

CmpInputs == CmpSeqsUpTo(MaxCmpLen)

CmpTypes == {"OsString", "OsStr"}
CmpOps == {"eq", "lt", "le", "gt", "ge", "partial_cmp", "cmp"}

\* Iterator::eq / the slice's ==: the same length and the same byte at
\* every index.
RECURSIVE slice_eq(_, _)
slice_eq(a, b) ==
    IF a = <<>> \/ b = <<>> THEN a = <<>> /\ b = <<>>
    ELSE Head(a) = Head(b) /\ slice_eq(Tail(a), Tail(b))

\* <[u8] as Ord>::cmp: the first differing byte decides, then the length.
RECURSIVE slice_cmp(_, _)
slice_cmp(a, b) ==
    IF a = <<>> /\ b = <<>> THEN "Equal"
    ELSE IF a = <<>> THEN "Less"
    ELSE IF b = <<>> THEN "Greater"
    ELSE IF Head(a) < Head(b) THEN "Less"
    ELSE IF Head(a) > Head(b) THEN "Greater"
    ELSE slice_cmp(Tail(a), Tail(b))

\* impl PartialEq / PartialOrd / Ord for OsStr: each operator applied to
\* self.bytes() and other.bytes().
OsStr_cmp(o, a, b) ==
    CASE o = "eq" -> slice_eq(a, b)
      [] o = "lt" -> slice_cmp(a, b) = "Less"
      [] o = "le" -> slice_cmp(a, b) \in {"Less", "Equal"}
      [] o = "gt" -> slice_cmp(a, b) = "Greater"
      [] o = "ge" -> slice_cmp(a, b) \in {"Greater", "Equal"}
      [] o = "partial_cmp" -> <<"Some", slice_cmp(a, b)>>
      [] o = "cmp" -> slice_cmp(a, b)

\* The operators of OsString whose body derefs to OsStr first:
\* (&**self).partial_cmp(&**other), (&**self).cmp(&**other).
OsStringDerefs == {"partial_cmp", "cmp"}

\* The operators of OsString whose body applies the operator to self and
\* other as they are, two &OsString: self == other, self < other,
\* self <= other, self > other, self >= other.  On references the operator
\* is the one of the referents: the function that is running.
OsStringOnSelf == {"eq", "lt", "le", "gt", "ge"}

InitCmp ==
    /\ \E ty \in CmpTypes, o \in CmpOps, a \in CmpInputs, b \in CmpInputs :
          cmp = [ty |-> ty, op |-> o, a |-> a, b |-> b,
                 stack |-> <<>>, pc |-> "call", ret |-> "none"]
    /\ IdleBuf
    /\ view = <<>>
    /\ IdleOwn
    /\ IdleLossy

Frame(ty, o) == <<ty, o>>

\* The caller applies the operator: the function is entered.
CmpCall ==
    /\ cmp.pc = "call"
    /\ cmp' = [cmp EXCEPT !.stack = <<Frame(cmp.ty, cmp.op)>>, !.pc = "body"]
    /\ UNCHANGED <<lossyVars, ownVars, bufVars>>

\* A function of OsStr runs: it compares the bytes and returns.
CmpOsStr ==
    /\ cmp.pc = "body" /\ cmp.stack[Len(cmp.stack)][1] = "OsStr"
    /\ cmp' = [cmp EXCEPT !.stack = <<>>, !.pc = "done",
                          !.ret = OsStr_cmp(cmp.op, cmp.a, cmp.b)]
    /\ UNCHANGED <<lossyVars, ownVars, bufVars>>

\* OsString::partial_cmp / cmp run: they call the function of OsStr.
CmpDeref ==
    /\ cmp.pc = "body" /\ cmp.stack[Len(cmp.stack)][1] = "OsString"
    /\ cmp.op \in OsStringDerefs
    /\ Len(cmp.stack) < MaxStack
    /\ cmp' = [cmp EXCEPT !.stack = Append(@, Frame("OsStr", cmp.op))]
    /\ UNCHANGED <<lossyVars, ownVars, bufVars>>

\* OsString::eq / lt / le / gt / ge run: they call themselves.
CmpOnSelf ==
    /\ cmp.pc = "body" /\ cmp.stack[Len(cmp.stack)][1] = "OsString"
    /\ cmp.op \in OsStringOnSelf
    /\ Len(cmp.stack) < MaxStack
    /\ cmp' = [cmp EXCEPT !.stack = Append(@, Frame("OsString", cmp.op))]
    /\ UNCHANGED <<lossyVars, ownVars, bufVars>>

\* A call with the stack full: the stack overflows and the program ends
\* without the comparison having returned.
CmpOverflow ==
    /\ cmp.pc = "body" /\ cmp.stack[Len(cmp.stack)][1] = "OsString"
    /\ Len(cmp.stack) = MaxStack
    /\ cmp' = [cmp EXCEPT !.pc = "overflow"]
    /\ UNCHANGED <<lossyVars, ownVars, bufVars>>

NextCmp ==
    \/ CmpCall
    \/ CmpOsStr
    \/ CmpDeref
    \/ CmpOnSelf
    \/ CmpOverflow

SpecCmp == InitCmp /\ [][NextCmp]_vars

\* C16: == on two OsStrings terminates (the call never ends in a stack
\* overflow) and returns true exactly when the byte sequences are equal, as
\* == on the two as OsStr does.
C16_EqTerminates ==
    (cmp.ty = "OsString" /\ cmp.op = "eq") =>
        /\ cmp.pc # "overflow"
        /\ cmp.pc = "done" => cmp.ret = (cmp.a = cmp.b)

\* C17: <, <=, > and >= on two OsStrings terminate (the call never ends
\* in a stack overflow) and return what the lexicographic comparison of the byte
\* sequences gives, as partial_cmp and cmp on the same pair do.
C17_OrderingTerminates ==
    (cmp.ty = "OsString" /\ cmp.op \in {"lt", "le", "gt", "ge"}) =>
        /\ cmp.pc # "overflow"
        /\ cmp.pc = "done" => cmp.ret = OsStr_cmp(cmp.op, cmp.a, cmp.b)


(***************************************************************************)
(* More properties of the decoder (SpecLossy).                             *)
(***************************************************************************)
\* The chunk stream of a fresh iterator over src, run to its end.
RECURSIVE Rerun(_)
Rerun(src) ==
    IF src = <<>> THEN <<>>
    ELSE LET c == NextChunk(src)
         IN  <<Chunk(c)>> \o Rerun(c.rest)

\* C18: the decoder never fails and always finishes, on every input, the
\* empty one and ones with zero bytes inside included: an operation that
\* has not returned stands at one of its steps, and the next call of next()
\* on what is left to scan leaves less to scan; every chunk yielded is
\* non-empty and the cursor (the input's length less what is left to scan)
\* stands after the chunks yielded, so each call of next() moved it
\* forward; there are never more chunks than input bytes; the operation
\* returns a value, not an error; and the chunks an operation saw are those
\* a fresh iterator over the same input yields.
C18_DecoderTerminates ==
    Chunked =>
        /\ pc # "done" =>
              /\ pc \in {"start", "chunks"}
              /\ source # <<>> => Len(NextChunk(source).rest) < Len(source)
        /\ \A i \in 1..Len(chunks) : Len(chunks[i].valid) + Len(chunks[i].broken) >= 1
        /\ Len(bytes) - Len(source) = Len(ConcatChunks(chunks))
        /\ Len(chunks) <= Len(bytes)
        /\ pc = "done" =>
              /\ source = <<>>
              /\ ret.tag \in {"Ok", "Borrowed", "Owned"}
              /\ chunks = Rerun(bytes)

\* An input with a zero byte inside and a malformed byte after it, decoded
\* to its end in two chunks.
C18_Witness ==
    /\ Chunked /\ pc = "done"
    /\ Len(bytes) = 4 /\ bytes[2] = 0 /\ bytes[3] = 128
    /\ Len(chunks) = 2 /\ chunks[1].valid = SubSeq(bytes, 1, 2)


(***************************************************************************)
(* lib.rs: utf8_char_width on every byte value.                            *)
(***************************************************************************)
\* A u8.
U8 == 0..255

InitWidth ==
    /\ \E b \in U8 : bytes = <<b>>
    /\ op = "utf8_char_width"
    /\ pc = "start"
    /\ source = <<>>
    /\ chunks = <<>>
    /\ out = <<>>
    /\ res = <<>>
    /\ ret = None
    /\ view = <<>>
    /\ IdleOwn
    /\ IdleBuf
    /\ IdleCmp

\* utf8_char_width(b)
Utf8CharWidth ==
    /\ op = "utf8_char_width" /\ pc = "start"
    /\ ret' = [tag |-> "Width", val |-> utf8_char_width(bytes[1])]
    /\ pc' = "done"
    /\ UNCHANGED <<bytes, op, source, chunks, out, res>>
    /\ UNCHANGED <<ownVars, bufVars, cmp>>

NextWidth == Utf8CharWidth

SpecWidth == InitWidth /\ [][NextWidth]_vars

\* The width the first byte of a UTF-8 sequence announces, by range.
WidthByRange(b) ==
    IF b \in 0..127 THEN 1
    ELSE IF b \in 194..223 THEN 2
    ELSE IF b \in 224..239 THEN 3
    ELSE IF b \in 240..244 THEN 4
    ELSE 0

\* C19: the table has 256 entries, so the index of every byte value is in
\* bounds, and utf8_char_width returns 1 for 0x00..0x7F, 2 for 0xC2..0xDF,
\* 3 for 0xE0..0xEF, 4 for 0xF0..0xF4 and 0 for every other byte.
C19_WidthTable ==
    op = "utf8_char_width" =>
        /\ Len(UTF8_CHAR_WIDTH) = 256
        /\ bytes[1] + 1 \in DOMAIN UTF8_CHAR_WIDTH
        /\ pc = "done" =>
              /\ ret.tag = "Width"
              /\ ret.val = WidthByRange(bytes[1])
              /\ ret.val = UTF8_CHAR_WIDTH[bytes[1] + 1]

\* The last 4-byte lead, 0xF4.
C19_Witness ==
    /\ op = "utf8_char_width" /\ pc = "done"
    /\ bytes = <<244>> /\ ret.val = 4

(***************************************************************************)
(* The three text conversions side by side (SpecLossy).                    *)
(***************************************************************************)
NoBroken(cs) == \A i \in 1..Len(cs) : cs[i].broken = <<>>

\* C20: on every byte sequence to_str returns Some exactly when
\* into_string returns Ok, exactly when the decoder yields no malformed
\* run; and then to_str, into_string and to_string_lossy all return the
\* input's bytes.
C20_ConversionsAgree ==
    pc = "done" =>
        /\ op = "to_str" =>
              /\ (ret.tag = "Some") <=> (Buf_into_string(bytes).tag = "Ok")
              /\ (ret.tag = "Some") <=> NoBroken(Rerun(bytes))
              /\ ret.tag = "Some" => ret.val = bytes
        /\ op = "into_string" =>
              /\ (ret.tag = "Ok") <=> (OsStr_to_str(bytes).tag = "Some")
              /\ (ret.tag = "Ok") <=> NoBroken(Rerun(bytes))
              /\ ret.tag = "Ok" => ret.val = bytes
        /\ op = "lossy" =>
              /\ NoBroken(chunks) <=> (OsStr_to_str(bytes).tag = "Some")
              /\ NoBroken(chunks) <=> (Buf_into_string(bytes).tag = "Ok")
              /\ NoBroken(chunks) => ret.val = bytes

\* to_str on a well-formed input with a 3-byte sequence in it.
C20_Witness ==
    /\ op = "to_str" /\ pc = "done" /\ ret.tag = "Some"
    /\ Len(bytes) = 4 /\ bytes[2] = 237 /\ ret.val = bytes

=============================================================================
